---- MODULE Spec2Model ----
(***************************************************************************)
(* OMR evaluation dashboard (scan-score-shine): the relational store       *)
(* (answer_keys, omr_sheets, omr_results), the answer-key form, the        *)
(* simulated scoring of an uploaded sheet and the analytics aggregation.   *)
(*                                                                         *)
(* Numbers with two decimals (percentage, confidence_score) are kept in    *)
(* hundredths: 8947 stands for 89.47.                                      *)
(***************************************************************************)
EXTENDS Integers, Sequences, FiniteSets, TLC

(* ------------------------------------------------------------------ *)
(* Bounds                                                             *)
(* ------------------------------------------------------------------ *)

\* The sheet size. The code fixes it at 100 (the length of the generated
\* detected-answer vector, the answer count saveAnswerKey demands, and the
\* total_questions / max_score it writes); the model scales that one number.
NumQuestions == 3

\* Sheets uploaded (hence results written) in one behaviour of Spec.
MaxSheets == 2

\* Answer keys added to the seeded store in one behaviour of Spec.
MaxNewKeys == 1

\* Result rows handed to one run of the analytics aggregation.
MaxRows == 3

\* The files the upload form lists at most.
MaxFiles == 2

\* Sheet rows the calls of uploadFiles insert in one behaviour.
MaxUploads == 3

\* Calls of uploadFiles that pass the version check in one behaviour.
MaxCalls == 3

\* Answers of the storage and the store that are errors in one behaviour.
MaxFailures == 1

(* ------------------------------------------------------------------ *)
(* Program constants                                                  *)
(* ------------------------------------------------------------------ *)

\* Math.floor(Math.random() * 4) + 1: the options of a question are 1..4.
NumOptions == 4

\* The trailing window of the recent-trend chart: for (i = 6; i >= 0; i--).
TrendDays == 7

\* What JavaScript yields for an array element outside the array.
Undefined == -1

\* What parseInt yields for text that is no number.
NaN == -2

\* The sheet layouts of the two version pickers (A..D in the code).
Versions == {"A", "B", "C"}

Half == NumQuestions \div 2

(* ------------------------------------------------------------------ *)
(* Helpers                                                            *)
(* ------------------------------------------------------------------ *)

\* arr[i] of JavaScript for a 1-based position i.
At(arr, i) == IF i \in 1..Len(arr) THEN arr[i] ELSE Undefined

RECURSIVE SumSeq(_)
SumSeq(s) == IF Len(s) = 0 THEN 0 ELSE s[1] + SumSeq(Tail(s))

RECURSIVE SelectSeqIdx(_, _)
\* The subsequence of s at the positions of the set idx, in order.
SelectSeqIdx(s, idx) ==
    IF Len(s) = 0 THEN <<>>
    ELSE LET rest == SelectSeqIdx(SubSeq(s, 1, Len(s) - 1), idx)
         IN  IF Len(s) \in idx THEN Append(rest, s[Len(s)]) ELSE rest

\* Number((x).toFixed(2)) of the quotient num/den * 100, in hundredths:
\* the nearest hundredth, a tie going up.
ToFixed2Pct(num, den) == (num * 20000 + den) \div (2 * den)

\* Math.round of a quotient num/den of non-negative integers.
RoundDiv(num, den) == (2 * num + den) \div (2 * den)

(* ------------------------------------------------------------------ *)
(* The store: answer_keys                                             *)
(* ------------------------------------------------------------------ *)

\* The answer pattern of the seeded key of version A: 1,2,3,4,1,2,3,4,...
SeedAnswersA == [i \in 1..NumQuestions |-> ((i - 1) % NumOptions) + 1]

\* The answer pattern of the seeded key of version B: 2,3,4,1,2,3,4,1,...
SeedAnswersB == [i \in 1..NumQuestions |-> (i % NumOptions) + 1]

\* The subject ranges the form starts with and the seeded keys carry: they
\* partition 1..total_questions (five subjects of 20 in the code, two halves here).
DefaultBreakdown ==
    [s \in {"english", "math"} |->
        IF s = "english" THEN [start |-> 1, end |-> Half]
                         ELSE [start |-> Half + 1, end |-> NumQuestions]]

\* The form with the last subject's end typed one past the last question.
PastEndBreakdown ==
    [DefaultBreakdown EXCEPT !["math"] = [start |-> Half + 1, end |-> NumQuestions + 1]]

KeyRow(id, name, version, breakdown, answers, tq, ms) ==
    [id |-> id, name |-> name, version |-> version, subject_breakdown |-> breakdown,
     answers |-> answers, total_questions |-> tq, max_score |-> ms]

\* INSERT INTO public.answer_keys ... 'Sample Exam 2024', 'A' and 'B'.
SeedKeys ==
    { KeyRow(1, "Sample Exam 2024", "A", DefaultBreakdown, SeedAnswersA,
             NumQuestions, NumQuestions),
      KeyRow(2, "Sample Exam 2024", "B", DefaultBreakdown, SeedAnswersB,
             NumQuestions, NumQuestions) }

\* UNIQUE(name, version) of answer_keys: may row be added to keys.
UniqueNameVersion(keys, name, version) ==
    \A k \in keys : ~(k.name = name /\ k.version = version)

\* The migration's policies with an UPDATE policy on answer_keys, like the
\* one omr_sheets has.
Policies_AnswerKeysUpdatable ==
    [answer_keys |-> {"SELECT", "INSERT", "UPDATE"},
     omr_sheets |-> {"SELECT", "INSERT", "UPDATE"},
     omr_results |-> {"SELECT", "INSERT"},
     omr_audit_logs |-> {"SELECT", "INSERT"}]

\* The migration's policies with a DELETE policy on answer_keys.
Policies_AnswerKeysDeletable ==
    [answer_keys |-> {"SELECT", "INSERT", "DELETE"},
     omr_sheets |-> {"SELECT", "INSERT", "UPDATE"},
     omr_results |-> {"SELECT", "INSERT"},
     omr_audit_logs |-> {"SELECT", "INSERT"}]

\* ENABLE ROW LEVEL SECURITY on the four tables and the CREATE POLICY
\* statements: the commands each table takes from the application. A
\* command without a policy affects no row and reports no error.
Policies ==
    [answer_keys |-> {"SELECT", "INSERT"},
     omr_sheets |-> {"SELECT", "INSERT", "UPDATE"},
     omr_results |-> {"SELECT", "INSERT"},
     omr_audit_logs |-> {"SELECT", "INSERT"}]

Allowed(table, command) == command \in Policies[table]

(* ------------------------------------------------------------------ *)
(* Scoring: simulateOMRProcessing                                     *)
(* ------------------------------------------------------------------ *)

\* The three counters of the forEach over the detected answers.
CountUnanswered(detectedAnswers) ==
    Cardinality({i \in 1..Len(detectedAnswers) : detectedAnswers[i] = 0})

CountCorrect(detectedAnswers, correctAnswers) ==
    Cardinality({i \in 1..Len(detectedAnswers) :
        /\ detectedAnswers[i] # 0
        /\ detectedAnswers[i] = At(correctAnswers, i)})

CountIncorrect(detectedAnswers, correctAnswers) ==
    Cardinality({i \in 1..Len(detectedAnswers) :
        /\ detectedAnswers[i] # 0
        /\ detectedAnswers[i] # At(correctAnswers, i)})

\* The inner loop over one subject's range: i runs over start-1..end-1
\* (0-based) and counts detectedAnswers[i] === correctAnswers[i].
SubjectCorrect(detectedAnswers, correctAnswers, range) ==
    Cardinality({i \in range.start..range.end :
        At(detectedAnswers, i) = At(correctAnswers, i)})

SubjectScores(detectedAnswers, correctAnswers, subjectBreakdown) ==
    [s \in DOMAIN subjectBreakdown |->
        SubjectCorrect(detectedAnswers, correctAnswers, subjectBreakdown[s])]

\* (totalScore / answerKey.total_questions) * 100, then Number(toFixed(2)).
Percentage(totalScore, answerKey) ==
    ToFixed2Pct(totalScore, answerKey.total_questions)

\* The row handed to the insert into omr_results.
ResultRow(sheetId, answerKey, detectedAnswers, confidence, processingTime) ==
    LET correct == CountCorrect(detectedAnswers, answerKey.answers)
    IN  [sheet_id |-> sheetId,
         answer_key_id |-> answerKey.id,
         detected_answers |-> detectedAnswers,
         subject_scores |-> SubjectScores(detectedAnswers, answerKey.answers,
                                          answerKey.subject_breakdown),
         total_score |-> correct,
         max_score |-> answerKey.max_score,
         percentage |-> Percentage(correct, answerKey),
         correct_answers |-> correct,
         incorrect_answers |-> CountIncorrect(detectedAnswers, answerKey.answers),
         unanswered |-> CountUnanswered(detectedAnswers),
         confidence_score |-> confidence,
         processing_time |-> processingTime]

(* ------------------------------------------------------------------ *)
(* State                                                              *)
(* ------------------------------------------------------------------ *)

VARIABLES
    answer_keys,      \* table answer_keys: a set of rows
    omr_sheets,       \* table omr_sheets: rows in insertion order, id = position
    omr_results,      \* table omr_results: rows in insertion order
    scored,           \* history: scored[i] is the answer-key row omr_results[i] was scored against
    selectedVersion,  \* OMRUpload: the sheet version picked in the form ("" = none)
    pc,               \* where the upload run stands: "idle" or "simulate"
    sheetId,          \* the sheet the upload run is processing
    nextId,           \* the next id the store hands to an answer key
    results,          \* OMRAnalytics: the joined rows loadAnalyticsData fetched
    today,            \* OMRAnalytics: the day loadAnalyticsData runs on
    analyticsData,    \* OMRAnalytics: <<>> while null, then <<the data set by loadAnalyticsData>>
    stats,            \* OMRDashboard: the state set by loadDashboardData
    showDialog,       \* AnswerKeyManager: is the create / edit dialog open
    editingKey,       \* AnswerKeyManager: the id of the key being edited (NoKey = null)
    toast,            \* AnswerKeyManager: the last toast ("" = none): its description when
                      \* its title is "Success", its title otherwise
    files,            \* OMRUpload: every file that joined the list: status, progress, listed
    runs,             \* OMRUpload: the calls of uploadFiles under way, each between two awaits
    omr_audit_logs,   \* table omr_audit_logs: a set of rows
    failures,         \* how many answers of the storage and the store were errors so far
    uploadCalls,      \* OMRUpload: the calls of uploadFiles that passed the version check
    uploadCompleteCalls, \* OMRUpload: the calls of onUploadComplete
    uploadToast       \* OMRUpload: the title of the last toast of uploadFiles ("" = none)

storeVars == <<answer_keys, omr_sheets, omr_results, scored, selectedVersion, pc,
               sheetId, nextId>>
analyticsVars == <<results, today, analyticsData, stats>>
managerVars == <<showDialog, editingKey, toast>>
uploadVars == <<files, runs, omr_audit_logs, failures, uploadCalls,
               uploadCompleteCalls, uploadToast>>
vars == <<answer_keys, omr_sheets, omr_results, scored, selectedVersion, pc,
          sheetId, nextId, results, today, analyticsData, stats,
          showDialog, editingKey, toast, files, runs, omr_audit_logs, failures,
          uploadCalls, uploadCompleteCalls, uploadToast>>

\* useState<AnswerKey | null>(null): no key is being edited.
NoKey == 0

\* useState<DashboardStats>: all four numbers 0, and still loading.
InitialStats ==
    [totalSheets |-> 0, completedSheets |-> 0, averageScore |-> 0,
     flaggedSheets |-> 0, isLoading |-> TRUE]

(* ------------------------------------------------------------------ *)
(* Inputs                                                             *)
(* ------------------------------------------------------------------ *)

\* What Math.random() can make of the detected answers: every vector of
\* NumQuestions entries, each 0 (no answer) or an option.
AllDetected == [1..NumQuestions -> 0..NumOptions]

\* Two of them: all correct for version A, and the same with question 1
\* left blank.
SampleDetected ==
    { SeedAnswersA,
      [SeedAnswersA EXCEPT ![1] = 0] }

\* The two further draws of Math.random(): confidence_score
\* (Math.random() * 20 + 80, in hundredths) and processing_time
\* (Math.floor(Math.random() * 5000) + 1000), at both ends of their ranges.
RandomDraws ==
    { [confidence |-> 8000, processingTime |-> 1000],
      [confidence |-> 9999, processingTime |-> 5999] }

\* The answers textarea after split(',') and parseInt: a well-formed
\* pattern behind a stray non-number, one too short, one with an option 5,
\* and nothing.
AnswersTexts ==
    { <<NaN>> \o SeedAnswersA,
      SubSeq(SeedAnswersA, 1, NumQuestions - 1),
      [SeedAnswersA EXCEPT ![1] = NumOptions + 1],
      <<>> }

FormDatas ==
    [name : {"", "Sample Exam 2024", "Final Exam"},
     version : {"", "A"},
     answersText : AnswersTexts,
     subjectBreakdown : {DefaultBreakdown, PastEndBreakdown}]

\* Answer sequences a row of answer_keys can carry (answers JSONB NOT NULL).
KeyAnswers ==
    { SeedAnswersA,
      SeedAnswersB,
      SubSeq(SeedAnswersA, 1, NumQuestions - 1),
      [SeedAnswersA EXCEPT ![1] = 0] }

\* Rows the schema of answer_keys admits besides those saveAnswerKey writes:
\* total_questions and max_score are free INTEGER columns.
KeyRows(id) ==
    { KeyRow(id, "Final Exam", v, b, a, tq, ms) :
        v \in {"A", "C"},
        b \in {DefaultBreakdown, PastEndBreakdown},
        a \in KeyAnswers,
        tq \in {NumQuestions - 1, NumQuestions, 2 * NumQuestions},
        ms \in {NumQuestions, 2 * NumQuestions} }

\* A few of them for the store of Spec.
SampleKeyRows(id) ==
    { KeyRow(id, "Mock Exam", "A", DefaultBreakdown, SeedAnswersA,
             2 * NumQuestions, 2 * NumQuestions),
      KeyRow(id, "Mock Exam", "A", DefaultBreakdown, SeedAnswersA,
             NumQuestions, 2 * NumQuestions),
      KeyRow(id, "Mock Exam", "A", DefaultBreakdown,
             SubSeq(SeedAnswersA, 1, NumQuestions - 1), NumQuestions - 1, NumQuestions) }

(* ------------------------------------------------------------------ *)
(* AnswerKeyManager: saveAnswerKey                                    *)
(* ------------------------------------------------------------------ *)

\* formData.answersText.split(',').map(a => parseInt(a.trim())).filter(a => !isNaN(a))
ParseAnswers(answersText) ==
    SelectSeqIdx(answersText, {i \in 1..Len(answersText) : answersText[i] # NaN})

\* A validation that lacks the step answers.some(a => a < 1 || a > 4).
FormValid_NoRangeCheck(formData) ==
    LET answers == ParseAnswers(formData.answersText)
    IN  /\ formData.name # "" /\ formData.version # "" /\ formData.answersText # <<>>
        /\ Len(answers) = NumQuestions

\* A validation that lacks the step answers.length !== 100.
FormValid_NoCountCheck(formData) ==
    LET answers == ParseAnswers(formData.answersText)
    IN  /\ formData.name # "" /\ formData.version # "" /\ formData.answersText # <<>>
        /\ \A i \in 1..Len(answers) : answers[i] >= 1 /\ answers[i] <= NumOptions

\* The three validation steps of saveAnswerKey; each shows a toast and returns.
FormValid(formData) ==
    LET answers == ParseAnswers(formData.answersText)
    IN  /\ formData.name # "" /\ formData.version # "" /\ formData.answersText # <<>>
        /\ Len(answers) = NumQuestions
        /\ \A i \in 1..Len(answers) : answers[i] >= 1 /\ answers[i] <= NumOptions

\* keyData of saveAnswerKey.
KeyData(id, formData) ==
    KeyRow(id, formData.name, formData.version, formData.subjectBreakdown,
           ParseAnswers(formData.answersText), NumQuestions, NumQuestions)

\* openDialog(key) for a listed key, openDialog() for a new one.
OpenDialog(id) ==
    /\ ~showDialog
    /\ id = NoKey \/ \E k \in answer_keys : k.id = id
    /\ showDialog' = TRUE
    /\ editingKey' = id
    /\ UNCHANGED <<toast, storeVars, analyticsVars, uploadVars>>

\* closeDialog: the Cancel button.
CloseDialog ==
    /\ showDialog
    /\ showDialog' = FALSE
    /\ editingKey' = NoKey
    /\ UNCHANGED <<toast, storeVars, analyticsVars, uploadVars>>

\* .update(keyData).eq('id', id): the rows of answer_keys afterwards.
UpdatedKeys(keys, id, formData) ==
    {IF k.id = id THEN KeyData(id, formData) ELSE k : k \in keys}

\* saveAnswerKey: validate (a toast and return on each failure), then
\* update the key being edited or insert a new one; a store error
\* (UNIQUE(name, version)) is shown and leaves the dialog open, otherwise
\* the dialog is closed. An update the policies do not admit, or of a key
\* that is gone, affects no row and is no error.
SaveAnswerKey(formData) ==
    /\ showDialog
    /\ editingKey = NoKey => Cardinality(answer_keys) < Cardinality(SeedKeys) + MaxNewKeys
    /\ IF ~FormValid(formData)
       THEN /\ toast' = "Validation Error"
            /\ UNCHANGED <<answer_keys, nextId, showDialog, editingKey>>
       ELSE IF editingKey # NoKey
       THEN IF /\ Allowed("answer_keys", "UPDATE")
               /\ \E k \in answer_keys : k.id = editingKey
            THEN IF UniqueNameVersion({k \in answer_keys : k.id # editingKey},
                                      formData.name, formData.version)
                 THEN /\ answer_keys' = UpdatedKeys(answer_keys, editingKey, formData)
                      /\ toast' = "Answer key updated successfully"
                      /\ showDialog' = FALSE
                      /\ editingKey' = NoKey
                      /\ UNCHANGED nextId
                 ELSE /\ toast' = "Error"
                      /\ UNCHANGED <<answer_keys, nextId, showDialog, editingKey>>
            ELSE /\ toast' = "Answer key updated successfully"
                 /\ showDialog' = FALSE
                 /\ editingKey' = NoKey
                 /\ UNCHANGED <<answer_keys, nextId>>
       ELSE IF UniqueNameVersion(answer_keys, formData.name, formData.version)
            THEN /\ answer_keys' = answer_keys \cup {KeyData(nextId, formData)}
                 /\ nextId' = nextId + 1
                 /\ toast' = "Answer key created successfully"
                 /\ showDialog' = FALSE
                 /\ editingKey' = NoKey
            ELSE /\ toast' = "Error"
                 /\ UNCHANGED <<answer_keys, nextId, showDialog, editingKey>>
    /\ UNCHANGED <<omr_sheets, omr_results, scored, selectedVersion, pc, sheetId>>
    /\ UNCHANGED <<analyticsVars, uploadVars>>

\* The positions of the rows of omr_results that reference the key.
Referencing(rows, id) == {i \in 1..Len(rows) : rows[i].answer_key_id = id}

\* deleteAnswerKey(id) once confirm() is answered yes: delete the key; its
\* results go with it (ON DELETE CASCADE). A delete the policies do not
\* admit affects no row and is no error.
DeleteAnswerKey(id) ==
    /\ \E k \in answer_keys : k.id = id
    /\ IF Allowed("answer_keys", "DELETE")
       THEN /\ answer_keys' = {k \in answer_keys : k.id # id}
            /\ omr_results' = SelectSeqIdx(omr_results,
                                  (1..Len(omr_results)) \ Referencing(omr_results, id))
            /\ scored' = SelectSeqIdx(scored,
                             (1..Len(omr_results)) \ Referencing(omr_results, id))
       ELSE UNCHANGED <<answer_keys, omr_results, scored>>
    /\ toast' = "Answer key deleted successfully"
    /\ UNCHANGED <<omr_sheets, selectedVersion, pc, sheetId, nextId>>
    /\ UNCHANGED <<showDialog, editingKey, analyticsVars, uploadVars>>

\* An insert into answer_keys that does not come from the form: the table
\* takes any row with a fresh (name, version) ("can be inserted by anyone").
InsertAnswerKeyRow(row) ==
    /\ Cardinality(answer_keys) < Cardinality(SeedKeys) + MaxNewKeys
    /\ row.id = nextId
    /\ UniqueNameVersion(answer_keys, row.name, row.version)
    /\ answer_keys' = answer_keys \cup {row}
    /\ nextId' = nextId + 1
    /\ UNCHANGED <<omr_sheets, omr_results, scored, selectedVersion, pc, sheetId>>
    /\ UNCHANGED <<analyticsVars, managerVars, uploadVars>>

(* ------------------------------------------------------------------ *)
(* OMRUpload: uploadFiles and simulateOMRProcessing                   *)
(* ------------------------------------------------------------------ *)

\* The version picker of the upload form.
SetSelectedVersion(v) ==
    /\ pc = "idle"
    /\ selectedVersion # v
    /\ selectedVersion' = v
    /\ UNCHANGED <<answer_keys, omr_sheets, omr_results, scored, pc, sheetId, nextId>>
    /\ UNCHANGED <<analyticsVars, managerVars, uploadVars>>

\* uploadFiles up to the call of simulateOMRProcessing: the version check
\* and the insert of the sheet row with status 'uploaded'.
UploadFilesInsertSheet ==
    /\ pc = "idle"
    /\ selectedVersion # ""
    /\ Len(omr_sheets) < MaxSheets
    /\ omr_sheets' = Append(omr_sheets,
            [id |-> Len(omr_sheets) + 1, sheet_version |-> selectedVersion,
             status |-> "uploaded"])
    /\ sheetId' = Len(omr_sheets) + 1
    /\ pc' = "simulate"
    /\ UNCHANGED <<answer_keys, omr_results, scored, selectedVersion, nextId>>
    /\ UNCHANGED <<analyticsVars, managerVars, uploadVars>>

\* The columns of omr_results are NOT NULL and percentage is DECIMAL(5,2):
\* the insert takes the row only if the percentage fits.
ResultInsertOk(row) == row.percentage >= 0 /\ row.percentage < 100000

\* simulateOMRProcessing(sheetId): fetch one answer key of the selected
\* version (any one: limit(1) without an order), return if there is none,
\* otherwise score the generated answers, insert the result and mark the
\* sheet completed. The outcome of neither write is looked at.
SimulateOMRProcessing(detectedAnswers, confidence, processingTime) ==
    /\ pc = "simulate"
    /\ pc' = "idle"
    /\ LET answerKeys == {k \in answer_keys : k.version = selectedVersion}
       IN  IF answerKeys = {}
           THEN UNCHANGED <<omr_sheets, omr_results, scored>>
           ELSE \E answerKey \in answerKeys :
                LET row == ResultRow(sheetId, answerKey, detectedAnswers,
                                     confidence, processingTime)
                IN  /\ IF ResultInsertOk(row)
                       THEN /\ omr_results' = Append(omr_results, row)
                            /\ scored' = Append(scored, answerKey)
                       ELSE UNCHANGED <<omr_results, scored>>
                    /\ omr_sheets' = [omr_sheets EXCEPT ![sheetId].status = "completed"]
    /\ UNCHANGED <<answer_keys, selectedVersion, sheetId, nextId>>
    /\ UNCHANGED <<analyticsVars, managerVars, uploadVars>>

(* ------------------------------------------------------------------ *)
(* OMRUpload: uploadFiles, from one await to the next                 *)
(* ------------------------------------------------------------------ *)

\* What handleFiles makes of a file of a valid type and size: pending,
\* progress 0. A file is known by the position at which it joined the
\* list (its id); listed is FALSE once removeFile has filtered it out.
NewFile == [status |-> "pending", progress |-> 0, listed |-> TRUE]

\* handleFiles with one file of a valid type and size.
HandleFiles ==
    /\ Len(files) < MaxFiles
    /\ files' = Append(files, NewFile)
    /\ UNCHANGED <<runs, omr_audit_logs, failures, uploadCalls,
                   uploadCompleteCalls, uploadToast>>
    /\ UNCHANGED <<storeVars, analyticsVars, managerVars>>

\* The files the list shows.
ListedFiles == {f \in 1..Len(files) : files[f].listed}

\* removeFile, from the button a pending file shows: the file leaves the
\* list.
RemoveFile(f) ==
    /\ f \in ListedFiles
    /\ files[f].status = "pending"
    /\ files' = [files EXCEPT ![f].listed = FALSE]
    /\ UNCHANGED <<runs, omr_audit_logs, failures, uploadCalls,
                   uploadCompleteCalls, uploadToast>>
    /\ UNCHANGED <<storeVars, analyticsVars, managerVars>>

\* setFiles(prev => prev.map(f => f.id === id ? {...f, ...} : f)): the file
\* of that id gets the status and the progress, if the list still has it.
SetFile(fs, f, status, progress) ==
    IF fs[f].listed
    THEN [fs EXCEPT ![f].status = status, ![f].progress = progress]
    ELSE fs

\* The files of the list that are pending, in the order of the list.
PendingFiles ==
    SelectSeqIdx([f \in 1..Len(files) |-> f],
                 {f \in ListedFiles : files[f].status = "pending"})

\* The state of a call of uploadFiles that starts on the file Head(todo):
\* status 'uploading' is set and the storage upload is awaited.
RunOn(todo, version) ==
    [pc |-> "storage", todo |-> todo, version |-> version, sheetId |-> 0,
     scoring |-> <<>>]

\* The for loop of uploadFiles goes on to the next file of its list, or
\* ends with onUploadComplete(); fs is the file list as the call leaves it.
\* The list the loop runs over is the one uploadFiles was called with: a
\* file another call has taken up since, or one removed since, is still
\* pending in it.
Advance(r, fs) ==
    LET todo == Tail(runs[r].todo)
    IN  IF todo = <<>>
        THEN /\ runs' = SelectSeqIdx(runs, (1..Len(runs)) \ {r})
             /\ files' = fs
             /\ uploadCompleteCalls' = uploadCompleteCalls + 1
        ELSE /\ runs' = [runs EXCEPT ![r] = RunOn(todo, runs[r].version)]
             /\ files' = SetFile(fs, Head(todo), "uploading", 10)
             /\ UNCHANGED uploadCompleteCalls

\* A catch block that ends the call: the file is shown as failed, the files
\* behind it stay pending and onUploadComplete is not reached.
Catch_Rethrow(r) ==
    /\ runs' = SelectSeqIdx(runs, (1..Len(runs)) \ {r})
    /\ files' = SetFile(files, Head(runs[r].todo), "error",
                        files[Head(runs[r].todo)].progress)
    /\ UNCHANGED uploadCompleteCalls
    /\ uploadToast' = "Upload failed"

\* The catch block: the file is shown as failed (its progress stays), a
\* toast tells so, the loop goes on.
Catch(r) ==
    /\ Advance(r, SetFile(files, Head(runs[r].todo), "error",
                          files[Head(runs[r].todo)].progress))
    /\ uploadToast' = "Upload failed"

\* The sheets the calls under way will still insert if nothing fails.
RECURSIVE Planned(_)
Planned(rs) ==
    IF rs = <<>> THEN 0
    ELSE Planned(Tail(rs)) +
         (IF Head(rs).pc \in {"storage", "sheet"}
          THEN Len(Head(rs).todo) ELSE Len(Head(rs).todo) - 1)

\* An uploadFiles that does not look at selectedVersion.
UploadFiles_NoVersionCheck ==
    /\ ListedFiles # {}
    /\ \A f \in ListedFiles : files[f].status \notin {"uploading", "processing"}
    /\ uploadCalls < MaxCalls
    /\ uploadCalls' = uploadCalls + 1
    /\ IF PendingFiles = <<>>
       THEN /\ uploadCompleteCalls' = uploadCompleteCalls + 1
            /\ UNCHANGED <<files, runs>>
       ELSE /\ Len(omr_sheets) + Planned(runs) + Len(PendingFiles) <= MaxUploads
            /\ runs' = Append(runs, RunOn(PendingFiles, selectedVersion))
            /\ files' = SetFile(files, Head(PendingFiles), "uploading", 10)
            /\ UNCHANGED uploadCompleteCalls
    /\ UNCHANGED <<omr_audit_logs, failures, uploadToast>>
    /\ UNCHANGED <<storeVars, analyticsVars, managerVars>>

\* uploadFiles is called (its button shows once a file is listed and is
\* disabled while a file is shown as uploading or processing): without a
\* version only a toast is shown; otherwise the loop takes up the first
\* pending file, or, with no file pending, ends at once.
UploadFiles ==
    /\ ListedFiles # {}
    /\ \A f \in ListedFiles : files[f].status \notin {"uploading", "processing"}
    /\ IF selectedVersion = ""
       THEN /\ uploadToast' = "Version required"
            /\ UNCHANGED <<files, runs, uploadCalls, uploadCompleteCalls>>
       ELSE /\ uploadCalls < MaxCalls
            /\ uploadCalls' = uploadCalls + 1
            /\ UNCHANGED uploadToast
            /\ IF PendingFiles = <<>>
               THEN /\ uploadCompleteCalls' = uploadCompleteCalls + 1
                    /\ UNCHANGED <<files, runs>>
               ELSE /\ Len(omr_sheets) + Planned(runs) + Len(PendingFiles)
                          <= MaxUploads
                    /\ runs' = Append(runs, RunOn(PendingFiles, selectedVersion))
                    /\ files' = SetFile(files, Head(PendingFiles), "uploading", 10)
                    /\ UNCHANGED uploadCompleteCalls
    /\ UNCHANGED <<omr_audit_logs, failures>>
    /\ UNCHANGED <<storeVars, analyticsVars, managerVars>>

\* An answer of the storage or the store arrives: a result (ok) or an error.
Answer(ok) ==
    /\ ok \/ failures < MaxFailures
    /\ failures' = IF ok THEN failures ELSE failures + 1

\* supabase.storage.upload returns: an error is thrown to the catch block,
\* otherwise the progress is 50 and the sheet insert is awaited.
StorageReturns(r, ok) ==
    /\ runs[r].pc = "storage"
    /\ Answer(ok)
    /\ IF ok
       THEN /\ runs' = [runs EXCEPT ![r].pc = "sheet"]
            /\ files' = SetFile(files, Head(runs[r].todo),
                                files[Head(runs[r].todo)].status, 50)
            /\ UNCHANGED <<uploadCompleteCalls, uploadToast>>
       ELSE Catch(r)
    /\ UNCHANGED <<omr_audit_logs, uploadCalls>>
    /\ UNCHANGED <<storeVars, analyticsVars, managerVars>>

\* The insert into omr_sheets returns: an error is thrown to the catch
\* block, otherwise the row exists with status 'uploaded', the file is shown
\* as processing and simulateOMRProcessing(sheetData.id) is under way.
SheetInsertReturns(r, ok) ==
    /\ runs[r].pc = "sheet"
    /\ Answer(ok)
    /\ IF ok
       THEN /\ omr_sheets' = Append(omr_sheets,
                    [id |-> Len(omr_sheets) + 1, sheet_version |-> runs[r].version,
                     original_filename |-> Head(runs[r].todo), status |-> "uploaded"])
            /\ runs' = [runs EXCEPT ![r].pc = "keys",
                                    ![r].sheetId = Len(omr_sheets) + 1]
            /\ files' = SetFile(files, Head(runs[r].todo), "processing", 75)
            /\ UNCHANGED <<uploadCompleteCalls, uploadToast>>
       ELSE /\ Catch(r)
            /\ UNCHANGED omr_sheets
    /\ UNCHANGED <<answer_keys, omr_results, scored, selectedVersion, pc, sheetId, nextId>>
    /\ UNCHANGED <<omr_audit_logs, uploadCalls>>
    /\ UNCHANGED <<analyticsVars, managerVars>>

\* A simulateOMRProcessing that takes the sheet from what all calls share,
\* the latest row of omr_sheets, instead of from its argument.
ResultSheetId_LatestSheet(run) == Len(omr_sheets)

\* The sheet a call of simulateOMRProcessing writes its result for: the
\* sheetId it was called with.
ResultSheetId(run) == run.sheetId

\* A simulateOMRProcessing that asks for the keys of the version the form
\* shows when the select is sent.
KeyVersion_Shown(run) == selectedVersion

\* The version simulateOMRProcessing asks the keys of: the selectedVersion
\* of the render its uploadFiles was called in.
KeyVersion(run) == run.version

\* simulateOMRProcessing returns to uploadFiles: the file is shown as
\* completed and the insert into omr_audit_logs is awaited.
MarkCompleted(r) ==
    /\ runs' = [runs EXCEPT ![r].pc = "audit", ![r].scoring = <<>>]
    /\ files' = SetFile(files, Head(runs[r].todo), "completed", 100)

\* The select of the answer keys of the version returns: without a key (or
\* without an answer) simulateOMRProcessing returns, otherwise the generated
\* answers are scored and the insert into omr_results is awaited.
KeysReturn(r, ok, detectedAnswers, confidence, processingTime) ==
    /\ runs[r].pc = "keys"
    /\ Answer(ok)
    /\ LET answerKeys == IF ok THEN {k \in answer_keys : k.version = KeyVersion(runs[r])}
                               ELSE {}
       IN  IF answerKeys = {}
           THEN MarkCompleted(r)
           ELSE \E answerKey \in answerKeys :
                   /\ runs' = [runs EXCEPT
                         ![r].pc = "result",
                         ![r].scoring =
                            <<ResultRow(ResultSheetId(runs[r]), answerKey,
                                        detectedAnswers, confidence, processingTime),
                              answerKey>>]
                   /\ UNCHANGED files
    /\ UNCHANGED <<omr_audit_logs, uploadCalls, uploadCompleteCalls, uploadToast>>
    /\ UNCHANGED <<storeVars, analyticsVars, managerVars>>

\* The insert into omr_results returns; its outcome is not looked at. The
\* update of the sheet is awaited.
ResultInsertReturns(r, ok) ==
    /\ runs[r].pc = "result"
    /\ Answer(ok)
    /\ IF /\ ok
          /\ ResultInsertOk(runs[r].scoring[1])
          /\ \E k \in answer_keys : k.id = runs[r].scoring[1].answer_key_id
       THEN /\ omr_results' = Append(omr_results, runs[r].scoring[1])
            /\ scored' = Append(scored, runs[r].scoring[2])
       ELSE UNCHANGED <<omr_results, scored>>
    /\ runs' = [runs EXCEPT ![r].pc = "update"]
    /\ UNCHANGED <<answer_keys, omr_sheets, selectedVersion, pc, sheetId, nextId>>
    /\ UNCHANGED <<files, omr_audit_logs, uploadCalls, uploadCompleteCalls, uploadToast>>
    /\ UNCHANGED <<analyticsVars, managerVars>>

\* The update of the sheet to 'completed' returns; its outcome is not
\* looked at, and simulateOMRProcessing returns.
SheetUpdateReturns(r, ok) ==
    /\ runs[r].pc = "update"
    /\ Answer(ok)
    /\ IF ok /\ Allowed("omr_sheets", "UPDATE")
       THEN omr_sheets' = [omr_sheets EXCEPT ![runs[r].sheetId].status = "completed"]
       ELSE UNCHANGED omr_sheets
    /\ MarkCompleted(r)
    /\ UNCHANGED <<answer_keys, omr_results, scored, selectedVersion, pc, sheetId, nextId>>
    /\ UNCHANGED <<omr_audit_logs, uploadCalls, uploadCompleteCalls, uploadToast>>
    /\ UNCHANGED <<analyticsVars, managerVars>>

\* An audit insert that keeps one event for each action: the event of the
\* latest upload takes the place of the earlier ones.
AuditInsertReturns_Upsert(r, ok) ==
    /\ runs[r].pc = "audit"
    /\ Answer(ok)
    /\ IF ok
       THEN omr_audit_logs' =
                {[sheet_id |-> runs[r].sheetId, action |-> "upload",
                  filename |-> Head(runs[r].todo)]}
       ELSE UNCHANGED omr_audit_logs
    /\ Advance(r, files)
    /\ UNCHANGED <<uploadCalls, uploadToast>>
    /\ UNCHANGED <<storeVars, analyticsVars, managerVars>>

\* The insert into omr_audit_logs returns; its outcome is not looked at.
\* The loop goes on.
AuditInsertReturns(r, ok) ==
    /\ runs[r].pc = "audit"
    /\ Answer(ok)
    /\ IF ok
       THEN omr_audit_logs' = omr_audit_logs \cup
                {[sheet_id |-> runs[r].sheetId, action |-> "upload",
                  filename |-> Head(runs[r].todo)]}
       ELSE UNCHANGED omr_audit_logs
    /\ Advance(r, files)
    /\ UNCHANGED <<uploadCalls, uploadToast>>
    /\ UNCHANGED <<storeVars, analyticsVars, managerVars>>

(* ------------------------------------------------------------------ *)
(* Specifications of the store and the scoring                        *)
(* ------------------------------------------------------------------ *)

\* The analytics page is not part of these specifications.
AnalyticsIdle ==
    /\ results = <<>>
    /\ today = 0
    /\ analyticsData = <<>>
    /\ stats = InitialStats

\* The answer-key dialog is closed.
ManagerIdle ==
    /\ showDialog = FALSE
    /\ editingKey = NoKey
    /\ toast = ""

\* No file is listed, no uploadFiles is under way, nothing is logged.
UploadIdle ==
    /\ files = <<>>
    /\ runs = <<>>
    /\ omr_audit_logs = {}
    /\ failures = 0
    /\ uploadCalls = 0
    /\ uploadCompleteCalls = 0
    /\ uploadToast = ""

\* The store after the migration: the two seeded answer keys, nothing else.
Init ==
    /\ answer_keys = SeedKeys
    /\ omr_sheets = <<>>
    /\ omr_results = <<>>
    /\ scored = <<>>
    /\ selectedVersion = ""
    /\ pc = "idle"
    /\ sheetId = 0
    /\ nextId = Cardinality(SeedKeys) + 1
    /\ AnalyticsIdle
    /\ ManagerIdle
    /\ UploadIdle

Next ==
    \/ OpenDialog(NoKey)
    \/ \E formData \in FormDatas : SaveAnswerKey(formData)
    \/ \E row \in SampleKeyRows(nextId) : InsertAnswerKeyRow(row)
    \/ \E v \in Versions : SetSelectedVersion(v)
    \/ UploadFilesInsertSheet
    \/ \E d \in SampleDetected, r \in RandomDraws :
          SimulateOMRProcessing(d, r.confidence, r.processingTime)

Spec == Init /\ [][Next]_vars

\* The ids the store has handed to answer keys so far.
KeyIds == 1..(nextId - 1)

\* The answer-key manager next to the upload form: keys are created, edited
\* and deleted while sheets of the seeded versions are scored against them.
NextKeys ==
    \/ \E id \in {NoKey} \cup KeyIds : OpenDialog(id)
    \/ CloseDialog
    \/ \E formData \in FormDatas : SaveAnswerKey(formData)
    \/ \E id \in KeyIds : DeleteAnswerKey(id)
    \/ \E v \in {"A", "B"} : SetSelectedVersion(v)
    \/ UploadFilesInsertSheet
    \/ \E r \in RandomDraws :
          SimulateOMRProcessing(SeedAnswersA, r.confidence, r.processingTime)

SpecKeys == Init /\ [][NextKeys]_vars

\* The upload form: files are listed and uploadFiles is called, also while
\* earlier calls are under way; every answer of the store and of the storage
\* may be an error.
NextUpload ==
    \/ HandleFiles
    \/ UploadFiles
    \/ \E r \in 1..Len(runs), ok \in BOOLEAN : StorageReturns(r, ok)
    \/ \E r \in 1..Len(runs), ok \in BOOLEAN : SheetInsertReturns(r, ok)
    \/ \E r \in 1..Len(runs), ok \in BOOLEAN :
          KeysReturn(r, ok, SeedAnswersA, 8000, 1000)
    \/ \E r \in 1..Len(runs), ok \in BOOLEAN : ResultInsertReturns(r, ok)
    \/ \E r \in 1..Len(runs), ok \in BOOLEAN : SheetUpdateReturns(r, ok)
    \/ \E r \in 1..Len(runs), ok \in BOOLEAN : AuditInsertReturns(r, ok)

\* The upload form with version A picked, over the seeded store.
InitUpload ==
    /\ answer_keys = SeedKeys
    /\ omr_sheets = <<>>
    /\ omr_results = <<>>
    /\ scored = <<>>
    /\ selectedVersion = "A"
    /\ pc = "idle"
    /\ sheetId = 0
    /\ nextId = Cardinality(SeedKeys) + 1
    /\ AnalyticsIdle
    /\ ManagerIdle
    /\ UploadIdle

SpecUpload == InitUpload /\ [][NextUpload]_vars

\* The upload form from its first render, with every answer of the storage
\* and the store a result: a version is picked and changed, files are
\* listed and removed, uploadFiles is called, also while earlier calls are
\* under way.
NextForm ==
    \/ HandleFiles
    \/ \E f \in 1..Len(files) : RemoveFile(f)
    \/ \E v \in {"A", "C"} : SetSelectedVersion(v)
    \/ UploadFiles
    \/ \E r \in 1..Len(runs) : StorageReturns(r, TRUE)
    \/ \E r \in 1..Len(runs) : SheetInsertReturns(r, TRUE)
    \/ \E r \in 1..Len(runs) : KeysReturn(r, TRUE, SeedAnswersA, 8000, 1000)
    \/ \E r \in 1..Len(runs) : ResultInsertReturns(r, TRUE)
    \/ \E r \in 1..Len(runs) : SheetUpdateReturns(r, TRUE)
    \/ \E r \in 1..Len(runs) : AuditInsertReturns(r, TRUE)

SpecForm == Init /\ [][NextForm]_vars

\* Two forms that pass the validation: a key of version B of a new name,
\* and one of the name and version of a seeded key.
SampleFormDatas ==
    [name : {"Sample Exam 2024", "Final Exam"},
     version : {"B"},
     answersText : {<<NaN>> \o SeedAnswersB},
     subjectBreakdown : {DefaultBreakdown}]

\* The upload form and the answer-key manager over one store: keys are
\* created, edited and deleted (in another window) while files of version A
\* are uploaded and logged.
NextApp ==
    \/ HandleFiles
    \/ SetSelectedVersion("A")
    \/ UploadFiles
    \/ \E r \in 1..Len(runs) : StorageReturns(r, TRUE)
    \/ \E r \in 1..Len(runs) : SheetInsertReturns(r, TRUE)
    \/ \E r \in 1..Len(runs) : KeysReturn(r, TRUE, SeedAnswersA, 8000, 1000)
    \/ \E r \in 1..Len(runs) : ResultInsertReturns(r, TRUE)
    \/ \E r \in 1..Len(runs) : SheetUpdateReturns(r, TRUE)
    \/ \E r \in 1..Len(runs) : AuditInsertReturns(r, TRUE)
    \/ \E id \in {NoKey} \cup KeyIds : OpenDialog(id)
    \/ \E formData \in SampleFormDatas : SaveAnswerKey(formData)
    \/ \E id \in KeyIds : DeleteAnswerKey(id)

SpecApp == Init /\ [][NextApp]_vars

\* The awaited call of the storage or the store returns to the call r of
\* uploadFiles, with a result or an error.
CallReturns(r) ==
    \E ok \in BOOLEAN :
        \/ StorageReturns(r, ok)
        \/ SheetInsertReturns(r, ok)
        \/ KeysReturn(r, ok, SeedAnswersA, 8000, 1000)
        \/ ResultInsertReturns(r, ok)
        \/ SheetUpdateReturns(r, ok)
        \/ AuditInsertReturns(r, ok)

\* The upload form with MaxFiles files listed and version A picked.
InitRuns ==
    /\ answer_keys = SeedKeys
    /\ omr_sheets = <<>>
    /\ omr_results = <<>>
    /\ scored = <<>>
    /\ selectedVersion = "A"
    /\ pc = "idle"
    /\ sheetId = 0
    /\ nextId = Cardinality(SeedKeys) + 1
    /\ AnalyticsIdle
    /\ ManagerIdle
    /\ files = [f \in 1..MaxFiles |-> NewFile]
    /\ runs = <<>>
    /\ omr_audit_logs = {}
    /\ failures = 0
    /\ uploadCalls = 0
    /\ uploadCompleteCalls = 0
    /\ uploadToast = ""

NextRuns ==
    \/ UploadFiles
    \/ \E r \in 1..Len(runs) : CallReturns(r)

\* Every external call returns: no call of uploadFiles waits for ever at
\* an await. Whether and when the user calls uploadFiles is left open.
SpecRuns ==
    /\ InitRuns
    /\ [][NextRuns]_vars
    /\ \A r \in 1..MaxCalls : WF_vars(r \in 1..Len(runs) /\ CallReturns(r))

\* The scoring of one sheet against every store of the seeds and at most one
\* further key, for every detected-answer vector.
InitScore ==
    /\ answer_keys \in {SeedKeys} \cup {SeedKeys \cup {k} : k \in KeyRows(3)}
    /\ omr_sheets \in {<<[id |-> 1, sheet_version |-> v, status |-> "uploaded"]>> :
                          v \in Versions}
    /\ omr_results = <<>>
    /\ scored = <<>>
    /\ selectedVersion = omr_sheets[1].sheet_version
    /\ pc = "simulate"
    /\ sheetId = 1
    /\ nextId = 4
    /\ AnalyticsIdle
    /\ ManagerIdle
    /\ UploadIdle

NextScore ==
    \E d \in AllDetected, r \in RandomDraws :
        SimulateOMRProcessing(d, r.confidence, r.processingTime)

SpecScore == InitScore /\ [][NextScore]_vars

(* ------------------------------------------------------------------ *)
(* OMRAnalytics: loadAnalyticsData                                    *)
(* ------------------------------------------------------------------ *)

\* Math.max() and Math.min() of no arguments.
NegInfinity == -3
PosInfinity == -4

\* Math.round(sum / count) for a sum of percentages kept in hundredths;
\* 0 / 0 is NaN and Math.round(NaN) is NaN.
RoundAverage(sum, count) ==
    IF count = 0 THEN NaN ELSE RoundDiv(sum, 100 * count)

RECURSIVE GCD(_, _)
GCD(a, b) == IF b = 0 THEN a ELSE GCD(b, a % b)

\* total / count of the two performance tables: the quotient, as a fraction
\* in lowest terms.
Quotient(total, count) ==
    LET g == GCD(total, count)
    IN  [num |-> total \div g, den |-> count \div g]

RECURSIVE MaxOf(_)
\* Math.max(...scores)
MaxOf(scores) ==
    IF Len(scores) = 0 THEN NegInfinity
    ELSE IF Len(scores) = 1 THEN scores[1]
    ELSE LET m == MaxOf(Tail(scores)) IN IF scores[1] >= m THEN scores[1] ELSE m

RECURSIVE MinOf(_)
\* Math.min(...scores)
MinOf(scores) ==
    IF Len(scores) = 0 THEN PosInfinity
    ELSE IF Len(scores) = 1 THEN scores[1]
    ELSE LET m == MinOf(Tail(scores)) IN IF scores[1] <= m THEN scores[1] ELSE m

\* Math.round of a percentage in hundredths; an infinity stays what it is.
RoundScore(score) == IF score < 0 THEN score ELSE RoundDiv(score, 100)

\* Has the object perf (its entries in insertion order) the key?
HasKey(perf, key) == \E i \in 1..Len(perf) : perf[i].key = key

\* if (!perf[key]) perf[key] = { total: 0, count: 0 };
\* perf[key].total += value; perf[key].count += 1;
AddTo(perf, key, value) ==
    LET p == IF HasKey(perf, key) THEN perf
             ELSE Append(perf, [key |-> key, total |-> 0, count |-> 0])
    IN  [i \in 1..Len(p) |->
            IF p[i].key = key
            THEN [key |-> key, total |-> p[i].total + value, count |-> p[i].count + 1]
            ELSE p[i]]

RECURSIVE AddAll(_, _)
\* The forEach over entries (each a key and a value), starting from perf.
AddAll(perf, entries) ==
    IF Len(entries) = 0 THEN perf
    ELSE AddAll(AddTo(perf, entries[1].key, entries[1].value), Tail(entries))

RECURSIVE SubjectEntries(_)
\* Object.entries(result.subject_scores) of every result, in the order of
\* the results (a jsonb object lists its keys shorter first: math, english).
SubjectEntries(rows) ==
    IF Len(rows) = 0 THEN <<>>
    ELSE rows[1].subject_scores \o SubjectEntries(Tail(rows))

VersionEntries(rows) ==
    [i \in 1..Len(rows) |->
        [key |-> rows[i].sheet_version, value |-> rows[i].percentage]]

\* Object.fromEntries(Object.entries(perf).map(... average: total / count ...))
Averages(perf) ==
    [i \in 1..Len(perf) |->
        [key |-> perf[i].key,
         average |-> Quotient(perf[i].total, perf[i].count),
         count |-> perf[i].count]]

\* scoreRanges
ScoreRanges ==
    << [range |-> "90-100%", min |-> 90, max |-> 100],
       [range |-> "80-89%", min |-> 80, max |-> 89],
       [range |-> "70-79%", min |-> 70, max |-> 79],
       [range |-> "60-69%", min |-> 60, max |-> 69],
       [range |-> "50-59%", min |-> 50, max |-> 59],
       [range |-> "0-49%", min |-> 0, max |-> 49] >>

\* scores.filter(score => score >= range.min && score <= range.max).length
ScoreDistribution(scores) ==
    [k \in 1..Len(ScoreRanges) |->
        [range |-> ScoreRanges[k].range,
         count |-> Cardinality({i \in 1..Len(scores) :
                      /\ scores[i] >= 100 * ScoreRanges[k].min
                      /\ scores[i] <= 100 * ScoreRanges[k].max})]]

\* The loop for (i = 6; i >= 0; i--): one entry per day, oldest first.
RecentTrends(rows, day) ==
    [k \in 1..TrendDays |->
        LET date == day - (TrendDays - k)
            dayResults == SelectSeqIdx(rows,
                             {i \in 1..Len(rows) : rows[i].created_at = date})
            dayAverage == IF Len(dayResults) > 0
                          THEN RoundAverage(
                                  SumSeq([i \in 1..Len(dayResults) |->
                                             dayResults[i].percentage]),
                                  Len(dayResults))
                          ELSE 0
        IN  [date |-> date, averageScore |-> dayAverage, count |-> Len(dayResults)]]

\* The state set when the query returns no rows.
EmptyAnalytics ==
    [totalStudents |-> 0, averageScore |-> 0, highestScore |-> 0, lowestScore |-> 0,
     subjectPerformance |-> <<>>, versionPerformance |-> <<>>,
     scoreDistribution |-> <<>>, recentTrends |-> <<>>]

\* A loadAnalyticsData that averages every subject over all the results, as
\* if a result without the subject had scored 0 in it.
ComputedAnalytics_ZeroFill(rows, day) ==
    LET scores == [i \in 1..Len(rows) |-> rows[i].percentage]
        perf == AddAll(<<>>, SubjectEntries(rows))
    IN  [totalStudents |-> Len(rows),
         averageScore |-> RoundAverage(SumSeq(scores), Len(rows)),
         highestScore |-> RoundScore(MaxOf(scores)),
         lowestScore |-> RoundScore(MinOf(scores)),
         subjectPerformance |->
            [i \in 1..Len(perf) |->
                [key |-> perf[i].key,
                 average |-> Quotient(perf[i].total, Len(rows)),
                 count |-> Len(rows)]],
         versionPerformance |-> Averages(AddAll(<<>>, VersionEntries(rows))),
         scoreDistribution |-> ScoreDistribution(scores),
         recentTrends |-> RecentTrends(rows, day)]

\* The state set from a result set: the statistics of loadAnalyticsData.
ComputedAnalytics(rows, day) ==
    LET scores == [i \in 1..Len(rows) |-> rows[i].percentage]
    IN  [totalStudents |-> Len(rows),
         averageScore |-> RoundAverage(SumSeq(scores), Len(rows)),
         highestScore |-> RoundScore(MaxOf(scores)),
         lowestScore |-> RoundScore(MinOf(scores)),
         subjectPerformance |-> Averages(AddAll(<<>>, SubjectEntries(rows))),
         versionPerformance |-> Averages(AddAll(<<>>, VersionEntries(rows))),
         scoreDistribution |-> ScoreDistribution(scores),
         recentTrends |-> RecentTrends(rows, day)]

\* A loadAnalyticsData that lacks the early return for an empty result set.
AnalyticsData_NoEmptyCase(rows, day) == ComputedAnalytics(rows, day)

\* What loadAnalyticsData hands to setAnalyticsData.
AnalyticsData(rows, day) ==
    IF Len(rows) = 0 THEN EmptyAnalytics ELSE ComputedAnalytics(rows, day)

\* loadAnalyticsData: the page is mounted and the query has returned.
LoadAnalyticsData ==
    /\ analyticsData = <<>>
    /\ analyticsData' = <<AnalyticsData(results, today)>>
    /\ UNCHANGED <<results, today, stats>>
    /\ UNCHANGED <<storeVars, managerVars, uploadVars>>

(* ------------------------------------------------------------------ *)
(* OMRDashboard: loadDashboardData                                    *)
(* ------------------------------------------------------------------ *)

CountStatus(sheets, status) ==
    Cardinality({i \in 1..Len(sheets) : sheets[i].status = status})

\* The stats loadDashboardData sets from the sheets and the results.
DashboardStats(sheets, rows) ==
    [totalSheets |-> Len(sheets),
     completedSheets |-> CountStatus(sheets, "completed"),
     averageScore |->
        IF Len(rows) > 0
        THEN RoundAverage(SumSeq([i \in 1..Len(rows) |-> rows[i].percentage]),
                          Len(rows))
        ELSE 0,
     flaggedSheets |-> CountStatus(sheets, "flagged"),
     isLoading |-> FALSE]

\* loadDashboardData: both queries have returned.
LoadDashboardData ==
    /\ stats.isLoading
    /\ stats' = DashboardStats(omr_sheets, results)
    /\ UNCHANGED <<results, today, analyticsData>>
    /\ UNCHANGED <<storeVars, managerVars, uploadVars>>

(* ------------------------------------------------------------------ *)
(* Specification of the aggregation                                   *)
(* ------------------------------------------------------------------ *)

\* The day the analytics page is opened on.
Today == 20

\* Joined rows of omr_results and omr_sheets: the percentage in hundredths,
\* Object.entries of subject_scores, the sheet's version and the day of its
\* created_at. 89.47 is 17 of 19 questions and 49.50 is 99 of 200.
SampleRows ==
    { [percentage |-> 8000, sheet_version |-> "A", created_at |-> Today,
       subject_scores |-> <<[key |-> "math", value |-> 2], [key |-> "english", value |-> 1]>>],
      [percentage |-> 6000, sheet_version |-> "B", created_at |-> Today,
       subject_scores |-> <<[key |-> "math", value |-> 1], [key |-> "english", value |-> 1]>>],
      [percentage |-> 8947, sheet_version |-> "A", created_at |-> Today - 1,
       subject_scores |-> <<[key |-> "english", value |-> 1]>>],
      [percentage |-> 4950, sheet_version |-> "B", created_at |-> Today - TrendDays,
       subject_scores |-> <<[key |-> "math", value |-> 0]>>],
      [percentage |-> 10000, sheet_version |-> "A", created_at |-> Today - 1,
       subject_scores |-> <<[key |-> "math", value |-> 2], [key |-> "english", value |-> 1]>>],
      [percentage |-> 0, sheet_version |-> "C", created_at |-> Today - (TrendDays - 1),
       subject_scores |-> <<>>] }

RowSeqs == UNION {[1..n -> SampleRows] : n \in 0..MaxRows}

InitAgg ==
    /\ results \in RowSeqs
    /\ today = Today
    /\ analyticsData = <<>>
    /\ stats = InitialStats
    /\ omr_sheets = [i \in 1..Len(results) |->
                        [id |-> i, sheet_version |-> results[i].sheet_version,
                         status |-> "completed"]]
    /\ answer_keys = SeedKeys
    /\ omr_results = <<>>
    /\ scored = <<>>
    /\ selectedVersion = ""
    /\ pc = "idle"
    /\ sheetId = 0
    /\ nextId = Cardinality(SeedKeys) + 1
    /\ ManagerIdle
    /\ UploadIdle

NextAgg ==
    \/ LoadAnalyticsData
    \/ LoadDashboardData

SpecAgg == InitAgg /\ [][NextAgg]_vars

(* ------------------------------------------------------------------ *)
(* Claims about the scoring                                           *)
(* ------------------------------------------------------------------ *)

ResultIds == 1..Len(omr_results)

\* The questions of 1..Len(detected) classified correct: answered, and the
\* answer is the key's answer at that position.
CorrectPositions(detectedAnswers, correctAnswers) ==
    {i \in 1..Len(detectedAnswers) :
        /\ i \in 1..Len(correctAnswers)
        /\ detectedAnswers[i] # 0
        /\ detectedAnswers[i] = correctAnswers[i]}

\* C1: in every result row, correct_answers + incorrect_answers + unanswered
\* equals the total_questions of the answer key the row was scored against.
C1_CountsSumToTotalQuestions ==
    \A i \in ResultIds :
        omr_results[i].correct_answers + omr_results[i].incorrect_answers
            + omr_results[i].unanswered = scored[i].total_questions

\* C2: in every result row, the score of every subject of the key's
\* subject_breakdown is the number of questions in the subject's range
\* [start, end] that were classified correct; unanswered positions and
\* positions outside the vectors add nothing.
C2_SubjectScoreCountsCorrect ==
    \A i \in ResultIds :
        \A s \in DOMAIN scored[i].subject_breakdown :
            omr_results[i].subject_scores[s] =
                Cardinality(
                    (scored[i].subject_breakdown[s].start
                        .. scored[i].subject_breakdown[s].end)
                    \cap CorrectPositions(omr_results[i].detected_answers,
                                          scored[i].answers))

\* C3: in every result row, percentage is total_score / max_score * 100
\* rounded to two decimals, also when the key's max_score is not its
\* total_questions.
C3_PercentageOfMaxScore ==
    \A i \in ResultIds :
        omr_results[i].percentage =
            ToFixed2Pct(omr_results[i].total_score, omr_results[i].max_score)

\* C4: a result row whose detected answers equal the key's answers position
\* by position, none of them 0, has percentage 100.00 and no incorrect and
\* no unanswered question.
C4_PerfectSheetScoresHundred ==
    \A i \in ResultIds :
        (/\ omr_results[i].detected_answers = scored[i].answers
         /\ \A j \in 1..Len(omr_results[i].detected_answers) :
                omr_results[i].detected_answers[j] # 0)
        => /\ omr_results[i].percentage = 10000
           /\ omr_results[i].incorrect_answers = 0
           /\ omr_results[i].unanswered = 0

\* C5: no result row is written for a detected-answer vector whose length
\* differs from the key's total_questions or from the length of the key's
\* answers (such a scoring fails with ShapeMismatch).
C5_NoResultOnShapeMismatch ==
    \A i \in ResultIds :
        /\ Len(omr_results[i].detected_answers) = scored[i].total_questions
        /\ Len(omr_results[i].detected_answers) = Len(scored[i].answers)

\* C6: two result rows scored from the same detected-answer vector against
\* the same answer key carry the same subject_scores, total_score,
\* percentage, correct / incorrect / unanswered counts and confidence_score.
C6_ScoringDeterministic ==
    \A i \in ResultIds, j \in ResultIds :
        (/\ omr_results[i].detected_answers = omr_results[j].detected_answers
         /\ scored[i] = scored[j])
        => /\ omr_results[i].subject_scores = omr_results[j].subject_scores
           /\ omr_results[i].total_score = omr_results[j].total_score
           /\ omr_results[i].percentage = omr_results[j].percentage
           /\ omr_results[i].correct_answers = omr_results[j].correct_answers
           /\ omr_results[i].incorrect_answers = omr_results[j].incorrect_answers
           /\ omr_results[i].unanswered = omr_results[j].unanswered
           /\ omr_results[i].confidence_score = omr_results[j].confidence_score

(* ------------------------------------------------------------------ *)
(* Claims about the aggregation                                       *)
(* ------------------------------------------------------------------ *)

Loaded == analyticsData # <<>>

\* C7: for a non-empty result set every percentage falls in exactly one
\* bucket of the score distribution, so the bucket counts sum to the number
\* of results, non-integer percentages included.
C7_BucketCountsSumToResults ==
    (Loaded /\ Len(results) > 0)
    => SumSeq([k \in 1..Len(analyticsData[1].scoreDistribution) |->
                  analyticsData[1].scoreDistribution[k].count]) = Len(results)

\* C8: the recent trend has exactly TrendDays = 7 entries, one per day of
\* the trailing window, for every result set, the empty one included; a day
\* without results reports count 0 and average 0.
C8_RecentTrendHasSevenEntries ==
    Loaded
    => /\ Len(analyticsData[1].recentTrends) = TrendDays
       /\ \A k \in 1..Len(analyticsData[1].recentTrends) :
             LET entry == analyticsData[1].recentTrends[k]
             IN  (\A i \in 1..Len(results) : results[i].created_at # entry.date)
                 => entry.count = 0 /\ entry.averageScore = 0

\* C9: aggregating an empty result set succeeds with averageScore,
\* highestScore and lowestScore 0, empty subject and version performance
\* and no score-distribution count other than 0; the dashboard's
\* averageScore is 0 as well.
C9_EmptyResultSetGivesZeroes ==
    /\ (Loaded /\ results = <<>>)
       => /\ analyticsData[1].averageScore = 0
          /\ analyticsData[1].highestScore = 0
          /\ analyticsData[1].lowestScore = 0
          /\ analyticsData[1].subjectPerformance = <<>>
          /\ analyticsData[1].versionPerformance = <<>>
          /\ \A k \in 1..Len(analyticsData[1].scoreDistribution) :
                analyticsData[1].scoreDistribution[k].count = 0
    /\ (~stats.isLoading /\ results = <<>>) => stats.averageScore = 0

\* C9 witness: both pages have loaded an empty result set.
C9_EmptyResultSetLoaded ==
    /\ results = <<>>
    /\ Loaded
    /\ ~stats.isLoading

\* C10: the aggregation of any reordering of the fetched rows, on the same
\* day, is the data the page holds: every output field is identical.
C10_PermutationInvariant ==
    Loaded
    => \A p \in Permutations(1..Len(results)) :
          AnalyticsData([i \in 1..Len(results) |-> results[p[i]]], today)
              = analyticsData[1]

\* The percentages of the fetched rows, in hundredths.
FetchedScores == [i \in 1..Len(results) |-> results[i].percentage]

\* C11: for a non-empty result set averageScore is the arithmetic mean of
\* the percentages, highestScore their maximum and lowestScore their
\* minimum, and lowestScore <= averageScore <= highestScore.
C11_MeanMaxMinOfPercentages ==
    (Loaded /\ Len(results) > 0)
    => LET data == analyticsData[1]
       IN  /\ 100 * data.averageScore * Len(results) = SumSeq(FetchedScores)
           /\ \E i \in 1..Len(results) : FetchedScores[i] = 100 * data.highestScore
           /\ \A i \in 1..Len(results) : FetchedScores[i] <= 100 * data.highestScore
           /\ \E i \in 1..Len(results) : FetchedScores[i] = 100 * data.lowestScore
           /\ \A i \in 1..Len(results) : FetchedScores[i] >= 100 * data.lowestScore
           /\ data.lowestScore <= data.averageScore
           /\ data.averageScore <= data.highestScore

\* Does the row's subject_scores contain the subject?
ReportsSubject(row, subject) ==
    \E j \in 1..Len(row.subject_scores) : row.subject_scores[j].key = subject

\* The row's score in the subject, 0 for a row that lacks it.
SubjectScoreOf(row, subject) ==
    IF ReportsSubject(row, subject)
    THEN row.subject_scores[CHOOSE j \in 1..Len(row.subject_scores) :
                                row.subject_scores[j].key = subject].value
    ELSE 0

\* The subjects some fetched row reports.
FetchedSubjects ==
    UNION { {results[i].subject_scores[j].key : j \in 1..Len(results[i].subject_scores)} :
                i \in 1..Len(results) }

RangesPartition(key) ==
    /\ \A s \in DOMAIN key.subject_breakdown :
          /\ key.subject_breakdown[s].start >= 1
          /\ key.subject_breakdown[s].start <= key.subject_breakdown[s].end
          /\ key.subject_breakdown[s].end <= key.total_questions
    /\ \A q \in 1..key.total_questions :
          Cardinality({s \in DOMAIN key.subject_breakdown :
                          /\ key.subject_breakdown[s].start <= q
                          /\ q <= key.subject_breakdown[s].end}) = 1

\* C13: the subject ranges of every stored answer key (the seeds and the
\* keys saveAnswerKey created or updated) partition 1..total_questions: no
\* overlap, no gap, nothing outside.
C13_StoredRangesPartition ==
    \A k \in answer_keys : RangesPartition(k)

\* C14: every stored answer key (the seeds and the keys saveAnswerKey
\* created or updated) has exactly total_questions answers, each an option
\* of 1..NumOptions; no input with another count or another value is stored.
C14_StoredAnswersValid ==
    \A k \in answer_keys :
        /\ Len(k.answers) = k.total_questions
        /\ \A i \in 1..Len(k.answers) : k.answers[i] \in 1..NumOptions

\* C14 witness: saveAnswerKey has stored a key of the form and closed the
\* dialog.
C14_FormKeyStored ==
    /\ \E k \in answer_keys : k \notin SeedKeys
    /\ toast = "Answer key created successfully"
    /\ ~showDialog

\* The numbers of the answers text, by the claim's reading of the input.
NumbersOf(answersText) == SelectSeq(answersText, LAMBDA a : a # NaN)

\* The input fails validation: name, version or answers missing, another
\* count of answers than NumQuestions, or an answer outside 1..NumOptions.
FailsValidation(formData) ==
    \/ formData.name = ""
    \/ formData.version = ""
    \/ formData.answersText = <<>>
    \/ Len(NumbersOf(formData.answersText)) # NumQuestions
    \/ \E i \in 1..Len(NumbersOf(formData.answersText)) :
          NumbersOf(formData.answersText)[i] \notin 1..NumOptions

\* The inputs of the form that fail validation.
FailingFormDatas == {formData \in FormDatas : FailsValidation(formData)}

\* C15: a saveAnswerKey whose input fails validation leaves the stored
\* answer keys as they are and the dialog open: no step that changes the
\* stored keys or closes the dialog is a saveAnswerKey of such an input.
C15_InvalidInputChangesNothing ==
    [][(answer_keys' # answer_keys \/ (showDialog /\ ~showDialog'))
          => \A formData \in FailingFormDatas : ~SaveAnswerKey(formData)]_vars

\* C15 witness: the dialog is open on an input that was turned down, with
\* the store as it was seeded.
C15_ValidationErrorShown ==
    /\ toast = "Validation Error"
    /\ showDialog
    /\ answer_keys = SeedKeys

\* C19: a result row, once written, is neither changed nor removed by any
\* step of the application (further uploads, saveAnswerKey on the key it
\* references, deleteAnswerKey of that key): omr_results only grows at its
\* end.
C19_ResultRowsStay ==
    [][/\ Len(omr_results') >= Len(omr_results)
       /\ \A i \in 1..Len(omr_results) : omr_results'[i] = omr_results[i]]_vars

\* C19 witness: deleteAnswerKey has reported success while two result rows
\* are stored.
C19_DeleteReportedWithResultsStored ==
    /\ Len(omr_results) >= 2
    /\ toast = "Answer key deleted successfully"

\* The ids of the answer keys some result row references.
ReferencedKeyIds == {omr_results[i].answer_key_id : i \in 1..Len(omr_results)}

\* C20: no step changes the answers, subject_breakdown, version,
\* total_questions or max_score of an answer key that a result row
\* references; saveAnswerKey in edit mode leaves such a key as it is.
C20_ReferencedKeyUnchanged ==
    [][\A k \in answer_keys, l \in answer_keys' :
          (k.id \in ReferencedKeyIds /\ l.id = k.id)
          => /\ l.answers = k.answers
             /\ l.subject_breakdown = k.subject_breakdown
             /\ l.version = k.version
             /\ l.total_questions = k.total_questions
             /\ l.max_score = k.max_score]_vars

\* C20 witness: saveAnswerKey in edit mode has reported success while a
\* result row references a key.
C20_UpdateReportedWithKeyReferenced ==
    /\ ReferencedKeyIds # {}
    /\ toast = "Answer key updated successfully"

(* ------------------------------------------------------------------ *)
(* Claims about the upload                                            *)
(* ------------------------------------------------------------------ *)

\* The positions of the result rows of the sheet.
ResultsOf(sheet) == {i \in 1..Len(omr_results) : omr_results[i].sheet_id = sheet}

\* C16: once every call of uploadFiles has ended, each file shown as
\* completed has its 'upload' event in omr_audit_logs: a file whose
\* audit-log insert failed is not shown as completed.
C16_CompletedFilesAreLogged ==
    runs = <<>>
    => \A f \in ListedFiles :
          files[f].status = "completed"
          => \E event \in omr_audit_logs :
                event.action = "upload" /\ event.filename = f

\* C17: once every call of uploadFiles has ended, each sheet row whose
\* processing wrote no result has status 'failed': it is neither left
\* 'uploaded' nor marked 'completed'.
C17_FailedProcessingMarksSheetFailed ==
    runs = <<>>
    => \A sheet \in 1..Len(omr_sheets) :
          ResultsOf(sheet) = {} => omr_sheets[sheet].status = "failed"

\* C18: every sheet has at most one result row, in every state of every
\* interleaving of the calls of uploadFiles.
C18_AtMostOneResultPerSheet ==
    \A sheet \in 1..Len(omr_sheets) : Cardinality(ResultsOf(sheet)) <= 1

\* C18 witness: two calls of uploadFiles that overlapped have each uploaded
\* the same file and written a result for the sheet each created.
C18_TwoRunsScoredTheSameFile ==
    \E i \in 1..Len(omr_results), j \in 1..Len(omr_results) :
        /\ i # j
        /\ omr_results[i].sheet_id # omr_results[j].sheet_id
        /\ omr_sheets[omr_results[i].sheet_id].original_filename
              = omr_sheets[omr_results[j].sheet_id].original_filename

\* C21: audit events are append-only: whatever the application does next
\* (an upload step, the creation, update or deletion of an answer key),
\* every event of omr_audit_logs is still there, unchanged.
C21_AuditEventsStay == [][omr_audit_logs \subseteq omr_audit_logs']_vars

\* Two uploads are logged and the deletion of an answer key was reported.
C21_LoggedAndKeyDeleteReported ==
    /\ Cardinality(omr_audit_logs) >= 2
    /\ toast = "Answer key deleted successfully"

\* The forms that pass the validation of saveAnswerKey.
PassingFormDatas == FormDatas \ FailingFormDatas

\* Those of them that name the (name, version) pair of a stored key other
\* than the one being edited.
DuplicateFormDatas ==
    {formData \in PassingFormDatas :
        \E k \in answer_keys : /\ k.id # editingKey
                                /\ k.name = formData.name
                                /\ k.version = formData.version}

\* C22: no two stored answer keys share a (name, version) pair, and a save
\* (create or update) that would produce such a pair is rejected: it shows
\* the error toast and leaves answer_keys as it was.
C22_DuplicatePairRejected ==
    [][/\ \A k, l \in answer_keys' :
             (k.name = l.name /\ k.version = l.version) => k = l
       /\ \/ toast' = "Error" /\ answer_keys' = answer_keys
          \/ \A formData \in DuplicateFormDatas : ~SaveAnswerKey(formData)]_vars

\* C23: each file of the list is uploaded at most once, however the calls
\* of uploadFiles interleave: no two rows of omr_sheets (each written behind
\* its own storage upload) are of the same list entry.
C23_OneSheetPerListEntry ==
    \A i, j \in 1..Len(omr_sheets) :
        omr_sheets[i].original_filename = omr_sheets[j].original_filename
        => i = j

\* C24: a file removed from the list while pending is never uploaded
\* afterwards, also when it is removed while a call of uploadFiles is busy
\* with an earlier file: no row of omr_sheets is of a removed file.
C24_RemovedFileNotUploaded ==
    \A f \in 1..Len(files) :
        ~files[f].listed
        => \A i \in 1..Len(omr_sheets) : omr_sheets[i].original_filename # f

\* C25: whenever a file of the list is shown as completed, its sheet row
\* in the store has status 'completed' and a result row, also when the
\* selected version has no answer key.
C25_CompletedFileHasCompletedSheet ==
    \A f \in ListedFiles :
        files[f].status = "completed"
        => \E i \in 1..Len(omr_sheets) :
              /\ omr_sheets[i].original_filename = f
              /\ omr_sheets[i].status = "completed"
              /\ ResultsOf(omr_sheets[i].id) # {}

\* C26: in the store a sheet whose status is 'completed' has a result row,
\* also when the insert of the result fails.
C26_CompletedSheetHasResult ==
    \A i \in 1..Len(omr_sheets) :
        omr_sheets[i].status = "completed" => ResultsOf(omr_sheets[i].id) # {}

\* The steps of a file's status the claim allows.
StatusSteps ==
    { <<"pending", "uploading">>, <<"uploading", "processing">>,
      <<"processing", "completed">>, <<"uploading", "error">>,
      <<"processing", "error">> }

\* C27: the status of each file moves only along pending -> uploading ->
\* processing -> completed, with error reached from uploading or processing
\* only; completed and error are final, and the progress never decreases.
C27_StatusMovesForward ==
    [][\A f \in 1..Len(files) :
          /\ \/ files'[f].status = files[f].status
             \/ <<files[f].status, files'[f].status>> \in StatusSteps
          /\ files'[f].progress >= files[f].progress]_vars

\* No call of uploadFiles is under way, each one has called
\* onUploadComplete, and every file of the list is completed or in error.
AllDone ==
    /\ runs = <<>>
    /\ uploadCompleteCalls = uploadCalls
    /\ \A f \in ListedFiles : files[f].status \in {"completed", "error"}

\* C28: when every external call returns, every call of uploadFiles that
\* passes the version check ends: the files that were pending (here: the
\* whole list) end completed or in error, also those behind a file that
\* failed, and each call calls onUploadComplete once, when it ends - never
\* before, never twice.
C28_EveryCallEnds ==
    /\ [](uploadCalls = uploadCompleteCalls + Len(runs))
    /\ (uploadCalls > 0) ~> []AllDone

\* A file failed, the one behind it was completed, and each of the calls
\* has called onUploadComplete.
C28_LaterFileCompletedAfterFailure ==
    /\ AllDone
    /\ uploadCalls > 0
    /\ \E f, g \in ListedFiles :
          f < g /\ files[f].status = "error" /\ files[g].status = "completed"

\* C29: uploadFiles called with no version selected changes nothing: as
\* long as no version is selected, no step changes the status or the
\* progress of a file, starts an upload, writes to the store or calls
\* onUploadComplete.
C29_NoVersionNoUpload ==
    [][(selectedVersion = "" /\ selectedVersion' = "")
          => /\ \A f \in 1..Len(files) :
                   /\ files'[f].status = files[f].status
                   /\ files'[f].progress = files[f].progress
             /\ UNCHANGED <<runs, omr_sheets, omr_results, omr_audit_logs,
                            uploadCalls, uploadCompleteCalls>>]_vars

\* uploadFiles was called on a list of files with no version selected.
C29_VersionRequiredShown ==
    /\ selectedVersion = ""
    /\ uploadToast = "Version required"
    /\ PendingFiles # <<>>

\* C30: every result row is scored against an answer key of its sheet's
\* version: the key it names (as it was when the result was written) has
\* the sheet's sheet_version, and a sheet of a version without a stored key
\* has no result row.
C30_ResultKeyOfSheetVersion ==
    /\ \A i \in 1..Len(omr_results) :
          /\ scored[i].id = omr_results[i].answer_key_id
          /\ scored[i].version = omr_sheets[omr_results[i].sheet_id].sheet_version
    /\ \A s \in 1..Len(omr_sheets) :
          (\A k \in answer_keys : k.version # omr_sheets[s].sheet_version)
          => ResultsOf(omr_sheets[s].id) = {}

\* A sheet of version A has its result while the form shows version C, and
\* a sheet of version C was processed without one.
C30_ScoredWhileOtherVersionShown ==
    /\ selectedVersion = "C"
    /\ \E i \in 1..Len(omr_results) :
          omr_sheets[omr_results[i].sheet_id].sheet_version = "A"
    /\ \E s \in 1..Len(omr_sheets) :
          /\ omr_sheets[s].sheet_version = "C"
          /\ files[omr_sheets[s].original_filename].status = "completed"
====
